---- MODULE Spec2Model ----
(***************************************************************************)
(* GaussianOptics.py: the class GaussianBeam, its three fields with the    *)
(* cached Rayleigh length, the property setters and the formulas built on  *)
(* them.  The arithmetic is Python's float arithmetic, modelled bit for    *)
(* bit on multi-limb integers: the whole range of a float with its         *)
(* subnormals, infinities and NaN, the exceptions Python raises, and the   *)
(* pow and exp of the C library behind ** and math.exp.                    *)
(***************************************************************************)
EXTENDS Integers, Sequences

(***************************************************************************)
(* Unsigned multi-limb integers: a sequence of limbs, least significant    *)
(* first, each limb in 0 .. LimbBase-1, no most-significant zero limb;     *)
(* << >> is 0.  A limb holds 15 bits so that limb products stay below 2^31.*)
(***************************************************************************)
LimbBase == 2^15

RECURSIVE NatBitLen(_)
NatBitLen(n) == IF n = 0 THEN 0 ELSE 1 + NatBitLen(n \div 2)

LimbBits == NatBitLen(LimbBase) - 1

Max(a, b) == IF a >= b THEN a ELSE b
Min(a, b) == IF a <= b THEN a ELSE b

RECURSIVE BTrim(_)
BTrim(a) ==
  IF a = << >> THEN << >>
  ELSE IF a[Len(a)] = 0 THEN BTrim(SubSeq(a, 1, Len(a) - 1)) ELSE a

RECURSIVE BFromNat(_)
BFromNat(n) == IF n = 0 THEN << >> ELSE <<n % LimbBase>> \o BFromNat(n \div LimbBase)

Limb(a, i) == IF i >= 1 /\ i <= Len(a) THEN a[i] ELSE 0

RECURSIVE BCmpFrom(_, _, _)
BCmpFrom(a, b, i) ==
  IF i = 0 THEN 0
  ELSE IF a[i] > b[i] THEN 1
  ELSE IF a[i] < b[i] THEN -1
  ELSE BCmpFrom(a, b, i - 1)

\* -1, 0, 1 as a < b, a = b, a > b
BCmp(a, b) ==
  IF Len(a) > Len(b) THEN 1
  ELSE IF Len(a) < Len(b) THEN -1
  ELSE BCmpFrom(a, b, Len(a))

RECURSIVE BAddFrom(_, _, _, _)
BAddFrom(a, b, i, c) ==
  IF i > Len(a) /\ i > Len(b)
  THEN (IF c = 0 THEN << >> ELSE <<c>>)
  ELSE LET s == Limb(a, i) + Limb(b, i) + c
       IN  <<s % LimbBase>> \o BAddFrom(a, b, i + 1, s \div LimbBase)

BAdd(a, b) == BAddFrom(a, b, 1, 0)

RECURSIVE BSubFrom(_, _, _, _)
BSubFrom(a, b, i, c) ==
  IF i > Len(a) THEN << >>
  ELSE LET s == a[i] - Limb(b, i) - c
       IN  IF s < 0 THEN <<s + LimbBase>> \o BSubFrom(a, b, i + 1, 1)
                    ELSE <<s>> \o BSubFrom(a, b, i + 1, 0)

\* a - b for a >= b
BSub(a, b) == BTrim(BSubFrom(a, b, 1, 0))

RECURSIVE BMulSmallFrom(_, _, _, _)
BMulSmallFrom(a, d, i, c) ==
  IF i > Len(a) THEN (IF c = 0 THEN << >> ELSE <<c>>)
  ELSE LET s == a[i] * d + c
       IN  <<s % LimbBase>> \o BMulSmallFrom(a, d, i + 1, s \div LimbBase)

\* a * d for a limb d
BMulSmall(a, d) == IF d = 0 THEN << >> ELSE BMulSmallFrom(a, d, 1, 0)

BShlLimbs(a, q) == IF a = << >> THEN << >> ELSE [i \in 1..q |-> 0] \o a

RECURSIVE BMulFrom(_, _, _)
BMulFrom(a, b, i) ==
  IF i > Len(b) THEN << >>
  ELSE BAdd(BShlLimbs(BMulSmall(a, b[i]), i - 1), BMulFrom(a, b, i + 1))

BMul(a, b) == BMulFrom(a, b, 1)

RECURSIVE BDivSmallFrom(_, _, _, _)
BDivSmallFrom(a, d, i, rem) ==
  IF i = 0 THEN << >>
  ELSE LET cur == rem * LimbBase + a[i]
       IN  BDivSmallFrom(a, d, i - 1, cur % d) \o <<cur \div d>>

\* floor(a / d) for a limb d # 0
BDivSmall(a, d) == BTrim(BDivSmallFrom(a, d, Len(a), 0))

\* a * 2^k
BShl(a, k) == BShlLimbs(BMulSmall(a, 2^(k % LimbBits)), k \div LimbBits)

\* floor(a / 2^k)
BShr(a, k) ==
  LET q == k \div LimbBits
      r == k % LimbBits
      n == Len(a) - q
  IN  IF n <= 0 THEN << >>
      ELSE BTrim([i \in 1..n |->
                   (a[q + i] \div 2^r) + (Limb(a, q + i + 1) % 2^r) * 2^(LimbBits - r)])

RECURSIVE AllZeroUpTo(_, _)
AllZeroUpTo(a, q) == IF q = 0 THEN TRUE ELSE a[q] = 0 /\ AllZeroUpTo(a, q - 1)

\* the low k bits of a are all 0
BLowZero(a, k) ==
  LET q == Min(k \div LimbBits, Len(a))
      r == k % LimbBits
  IN  AllZeroUpTo(a, q) /\ (Limb(a, k \div LimbBits + 1) % 2^r = 0)

BBit(a, i) == (Limb(a, i \div LimbBits + 1) \div 2^(i % LimbBits)) % 2

BBitLen(a) == IF a = << >> THEN 0 ELSE LimbBits * (Len(a) - 1) + NatBitLen(a[Len(a)])

RECURSIVE NatTrailingZeros(_)
NatTrailingZeros(n) == IF n % 2 = 1 THEN 0 ELSE 1 + NatTrailingZeros(n \div 2)

RECURSIVE BTrailingZerosFrom(_, _)
BTrailingZerosFrom(a, i) ==
  IF a[i] = 0 THEN LimbBits + BTrailingZerosFrom(a, i + 1) ELSE NatTrailingZeros(a[i])

\* number of trailing zero bits of a # 0
BTrailingZeros(a) == BTrailingZerosFrom(a, 1)

RECURSIVE QuotLimb(_, _, _)
QuotLimb(r, d, q) == IF BCmp(BMulSmall(d, q), r) > 0 THEN QuotLimb(r, d, q - 1) ELSE q

\* floor(r / d) for r < d * LimbBase and the top limb of d at least LimbBase / 2
DivStep(r, d) ==
  LET n == Len(d)
      top == Limb(r, n + 1) * LimbBase + Limb(r, n)
  IN  QuotLimb(r, d, Min(LimbBase - 1, top \div d[n]))

\* One step of long division: the running <<quotient, remainder>> qr takes the
\* next limb x of the dividend.
DivLimb(x, qr, d) ==
  LET r1 == BTrim(<<x>> \o qr[2])
      q  == DivStep(r1, d)
  IN  <<<<q>> \o qr[1], BSub(r1, BMulSmall(d, q))>>

\* Long division over the limbs hi, hi-1, .. lo of the dividend n, upper half first.
RECURSIVE BDivRange(_, _, _, _, _)
BDivRange(n, d, lo, hi, qr) ==
  IF lo > hi THEN qr
  ELSE IF lo = hi THEN DivLimb(n[hi], qr, d)
  ELSE LET mid == (lo + hi + 1) \div 2
       IN  CHOOSE res \in {BDivRange(n, d, lo, mid - 1, v) :
                             v \in {BDivRange(n, d, mid, hi, qr)}} : TRUE

\* <<floor(n / d), (n mod d) * 2^s>> for d # 0, s the normalising shift
BDivMod(n, d) ==
  LET s == LimbBits - NatBitLen(d[Len(d)])
  IN  CHOOSE res \in {<<BTrim(qr[1]), qr[2]>> :
                        qr \in {BDivRange(nn, dd, 1, Len(nn), <<<< >>, << >>>>) :
                                   nn \in {BShl(n, s)}, dd \in {BShl(d, s)}}} : TRUE

RECURSIVE BSqrtIter(_, _)
BSqrtIter(n, s) ==
  CHOOSE res \in {IF BCmp(t, s) >= 0 THEN s ELSE BSqrtIter(n, t) :
                    t \in {BShr(BAdd(s, BDivMod(n, s)[1]), 1)}} : TRUE

RECURSIVE NatSqrtIter(_, _)
NatSqrtIter(n, s) ==
  LET t == (s + n \div s) \div 2
  IN  IF t >= s THEN s ELSE NatSqrtIter(n, t)

\* floor(sqrt(n)) for 0 < n < 2^30
NatSqrt(n) == NatSqrtIter(n, 2^((NatBitLen(n) + 1) \div 2))

\* floor(sqrt(n)), by Newton's iteration from an estimate above it that is
\* right in its leading limb
BSqrt(n) ==
  IF BBitLen(n) <= 2 * LimbBits THEN BFromNat(NatSqrt(Limb(n, 2) * LimbBase + Limb(n, 1)))
  ELSE LET k  == 2 * ((BBitLen(n) - 2 * LimbBits + 1) \div 2)
           hi == BShr(n, k)
       IN  BSqrtIter(n, BShl(BFromNat(NatSqrt(Limb(hi, 2) * LimbBase + Limb(hi, 1)) + 1), k \div 2))


(***************************************************************************)
(* Python float: IEEE-754 binary64 with round-to-nearest-even.  A finite   *)
(* float is [cls |-> "finite", neg, m, e] standing for (-1)^neg * m * 2^e  *)
(* with m an odd multi-limb integer below 2^MantDig and e >= MinExp; zero  *)
(* has m = << >> and e = 0 and keeps its sign.  The infinities and the one *)
(* NaN (its sign and payload are not told apart) have m = << >>, e = 0.    *)
(***************************************************************************)
MantDig == 53

\* the least positive float is 2^MinExp, and every finite float is below 2^MaxExp
MinExp == -1074
MaxExp == 1024

Finite(neg, m, e) == [cls |-> "finite", neg |-> neg, m |-> m, e |-> e]

\* a float written out: sign bit, odd significand, exponent
D(s, m, e) == Finite(s = 1, m, e)

Zero(neg) == Finite(neg, << >>, 0)

FZero == Zero(FALSE)

Inf(neg) == [cls |-> "inf", neg |-> neg, m |-> << >>, e |-> 0]

NaN == [cls |-> "nan", neg |-> FALSE, m |-> << >>, e |-> 0]

IsNaN(x) == x.cls = "nan"

IsInf(x) == x.cls = "inf"

IsFinite(x) == x.cls = "finite"

IsZero(x) == x.cls = "finite" /\ x.m = << >>

\* m * 2^e with the t trailing zero bits of m moved into the exponent
Normal(neg, m, e, t) == Finite(neg, BShr(m, t), e + t)

\* the float of m * 2^e, m of at most MantDig bits, in range
Canon(neg, m, e) ==
  IF m = << >> THEN Zero(neg) ELSE Normal(neg, m, e, BTrailingZeros(m))

\* the float of m * 2^e, m of at most MantDig bits: infinity from 2^MaxExp on
Fit(neg, m, e) == IF BBitLen(m) + e > MaxExp THEN Inf(neg) ELSE Canon(neg, m, e)

\* round to nearest, ties to even: q is rounded up when the part cut off is
\* above half a unit (half and rest), or is half a unit and q is odd
RoundUp(q, half, rest) ==
  IF half /\ (rest \/ BBit(q, 0) = 1) THEN BAdd(q, <<1>>) ELSE q

\* m * 2^e (plus a positive amount below 2^e when sticky) with its low k bits
\* rounded away
RoundAt(neg, m, e, sticky, k) ==
  Fit(neg,
      IF k <= 0 THEN m
      ELSE RoundUp(BShr(m, k), BBit(m, k - 1) = 1, sticky \/ ~BLowZero(m, k - 1)),
      e + Max(k, 0))

\* m * 2^e, plus a positive amount below 2^e when sticky, rounded to nearest
\* even at MantDig bits or, in the subnormal range, at 2^MinExp.  sticky is
\* passed only with m of more than MantDig bits.
Round(neg, m, e, sticky) ==
  RoundAt(neg, m, e, sticky, Max(BBitLen(m) - MantDig, MinExp - e))

FromInt(n) == Canon(n < 0, BFromNat(IF n < 0 THEN -n ELSE n), 0)

\* -x
fneg(x) == IF IsNaN(x) THEN x ELSE [x EXCEPT !.neg = ~@]

\* fabs(x)
fabs(x) == IF IsNaN(x) THEN x ELSE [x EXCEPT !.neg = FALSE]

\* <<sign, magnitude>> of (-1)^nh * sh + (-1)^nl * ml
AddSigned(nh, nl, sh, ml) ==
  IF nh = nl THEN <<nh, BAdd(sh, ml)>>
  ELSE IF BCmp(sh, ml) >= 0 THEN <<nh, BSub(sh, ml)>>
  ELSE <<nl, BSub(ml, sh)>>

\* the float of a sum s = <<sign, magnitude>> in units of 2^e; a sum that
\* cancels is +0.0
RoundSum(s, e, sticky) ==
  IF s[2] = << >> THEN FZero ELSE Round(s[1], s[2], e, sticky)

\* h + l rounded once, for h.e >= l.e.  When l is far below the unit of h it
\* only decides the direction of the rounding: it counts as one unit 2^e,
\* e = h.e - (MantDig + 3), and a sticky rest.
AddAligned(h, l, far) ==
  RoundSum(AddSigned(h.neg, l.neg,
                     BShl(h.m, IF far THEN MantDig + 3 ELSE h.e - l.e),
                     IF far THEN <<1>> ELSE l.m),
           IF far THEN h.e - (MantDig + 3) ELSE l.e,
           far)

AddOrdered(h, l) == AddAligned(h, l, h.e - l.e > BBitLen(l.m) + MantDig + 3)

\* x + y rounded once, for x and y of the form (-1)^neg * m * 2^e, m not
\* necessarily odd or below 2^MantDig; only the one of the lower exponent may
\* have m = 0
AddRound(x, y) ==
  AddOrdered(IF x.e >= y.e THEN x ELSE y, IF x.e >= y.e THEN y ELSE x)

\* x + y
fadd(x, y) ==
  IF IsNaN(x) \/ IsNaN(y) THEN NaN
  ELSE IF IsInf(x) THEN (IF IsInf(y) /\ x.neg # y.neg THEN NaN ELSE x)
  ELSE IF IsInf(y) THEN y
  ELSE IF IsZero(x) THEN (IF IsZero(y) THEN Zero(x.neg /\ y.neg) ELSE y)
  ELSE IF IsZero(y) THEN x
  ELSE AddRound(x, y)

\* x - y
fsub(x, y) == fadd(x, fneg(y))

\* x * y
fmul(x, y) ==
  IF IsNaN(x) \/ IsNaN(y) THEN NaN
  ELSE IF IsInf(x) \/ IsInf(y)
       THEN (IF IsZero(x) \/ IsZero(y) THEN NaN ELSE Inf(x.neg # y.neg))
  ELSE IF IsZero(x) \/ IsZero(y) THEN Zero(x.neg # y.neg)
  ELSE Round(x.neg # y.neg, BMul(x.m, y.m), x.e + y.e, FALSE)

\* the float of a quotient qr = <<quotient, remainder>> in units of 2^e
DivRound(neg, qr, e) == Round(neg, qr[1], e, qr[2] # << >>)

\* x / y of finite x and y, not 0, with k more bits than a float holds
DivAt(x, y, k) ==
  DivRound(x.neg # y.neg, BDivMod(BShl(x.m, k), y.m), x.e - y.e - k)

\* x / y in C, for y not 0
fdiv(x, y) ==
  IF IsNaN(x) \/ IsNaN(y) THEN NaN
  ELSE IF IsInf(x) THEN (IF IsInf(y) THEN NaN ELSE Inf(x.neg # y.neg))
  ELSE IF IsInf(y) \/ IsZero(x) THEN Zero(x.neg # y.neg)
  ELSE DivAt(x, y, MantDig + 2 + BBitLen(y.m))

\* the float of sqrt(n) * 2^e, s = floor(sqrt(n))
SqrtRound(n, s, e) == Round(FALSE, s, e, BCmp(BMul(s, s), n) # 0)

\* sqrt(n * 2^(2e))
SqrtOf(n, e) == SqrtRound(n, BSqrt(n), e)

\* sqrt(x) of a finite x > 0, with k more bits, x.e - k even
SqrtAt(x, k) == SqrtOf(BShl(x.m, k), (x.e - k) \div 2)

\* sqrt(x) in C
fsqrt(x) ==
  IF IsNaN(x) \/ IsZero(x) THEN x
  ELSE IF x.neg THEN NaN
  ELSE IF IsInf(x) THEN x
  ELSE SqrtAt(x, 2 * MantDig + 4 + (x.e % 2))

\* fma(x, y, z) = x * y + z rounded once, for finite x, y and z
ffma(x, y, z) ==
  IF IsZero(x) \/ IsZero(y)
  THEN (IF IsZero(z) THEN Zero((x.neg # y.neg) /\ z.neg) ELSE z)
  ELSE AddRound(Finite(x.neg # y.neg, BMul(x.m, y.m), x.e + y.e),
                IF IsZero(z) THEN Finite(z.neg, << >>, x.e + y.e) ELSE z)

\* -1, 0, 1 as d < 0, d == 0, d > 0
Sign(d) == IF IsZero(d) THEN 0 ELSE IF d.neg THEN -1 ELSE 1

\* -1, 0, 1 as x < y, x == y, x > y, and 2 when one of them is a NaN
fcmp(x, y) ==
  IF IsNaN(x) \/ IsNaN(y) THEN 2
  ELSE IF x = y THEN 0
  ELSE Sign(fsub(x, y))

\* floor(log2(|x|)) of a finite x that is not 0
Exponent(x) == BBitLen(x.m) + x.e - 1

\* x * 2^n, exact, of a finite x that is not 0
Scalb(x, n) == [x EXCEPT !.e = @ + n]

\* the integer a finite float with an integer value below 2^30 stands for
ToInt(x) ==
  IF IsZero(x) THEN 0
  ELSE (IF x.neg THEN -1 ELSE 1) * (Limb(x.m, 1) + LimbBase * Limb(x.m, 2)) * 2^x.e

\* math.pi, the float nearest to pi: 884279719003555 * 2^-48
MathPi == D(0, <<1443, 21777, 4349, 25>>, -48)

One == D(0, <<1>>, 0)

(***************************************************************************)
(* exp and pow of the C library the interpreter is linked with (glibc 2.36 *)
(* on x86-64, the variants for processors with fused multiply-add).  They  *)
(* are not correctly rounded.  The floating-point instructions of a        *)
(* routine are listed as its code, one <<destination, operation,           *)
(* operands>> per instruction, and run on a register file, a record of     *)
(* floats by register name; the tables are the library's.                  *)
(***************************************************************************)
\* __exp_data of exp: invln2N = N/ln2, the rounding shift 0x1.8p52 and -ln2/N in
\* a high and a low part, N the size of the table
ExpTableSize == 128
InvLn2N == D(0, <<16767, 25899, 10894, 92>>, -44)
Shift == D(0, <<3>>, 51)
NegLn2hiN == D(1, <<32637, 11842, 44>>, -43)
NegLn2loN == D(1, <<7581, 15518, 28469, 115>>, -98)

\* the coefficients C2 .. C5 of the polynomial of exp(r) - 1 - r
ExpC2 == D(0, <<32189, 32767, 32767, 255>>, -54)
ExpC3 == D(0, <<21775, 10922, 21845, 42>>, -53)
ExpC4 == D(0, <<11153, 7726, 21847, 170>>, -57)
ExpC5 == D(0, <<20503, 20297, 17477, 136>>, -59)

\* ExpTab[j + 1] = <<tail, scale>>: 2^(j/N) is scale * (1 + tail) nearly, scale the
\* float asdouble(T[2j + 1] + (j << 45)) nearest to it
ExpTab ==
  << <<D(0, <<>>, 0), D(0, <<1>>, 0)>>,
     <<D(0, <<24503, 6792, 30366, 108>>, -105), D(0, <<13109, 21494, 22774, 128>>, -52)>>,
     <<D(1, <<23645, 14769, 78, 139>>, -108), D(0, <<97, 31983, 12904, 129>>, -52)>>,
     <<D(1, <<26321, 8462, 31208, 130>>, -106), D(0, <<32645, 20700, 3159, 130>>, -52)>>,
     <<D(0, <<30227, 27343, 18760, 230>>, -107), D(0, <<24925, 27018, 22960, 32>>, -50)>>,
     <<D(1, <<18301, 9209, 7424, 111>>, -106), D(0, <<31599, 10717, 24790, 65>>, -51)>>,
     <<D(0, <<18529, 17357, 23865, 135>>, -109), D(0, <<13177, 17949, 17314, 16>>, -49)>>,
     <<D(0, <<21401, 13927, 3985, 133>>, -106), D(0, <<29571, 5517, 30971, 132>>, -52)>>,
     <<D(0, <<31597, 15110, 27289, 188>>, -106), D(0, <<2319, 23027, 21857, 133>>, -52)>>,
     <<D(0, <<31743, 18814, 13594, 61>>, -105), D(0, <<18423, 22244, 12872, 134>>, -52)>>,
     <<D(0, <<7377, 24671, 30965, 245>>, -112), D(0, <<26833, 13011, 18392, 67>>, -51)>>,
     <<D(1, <<28171, 4896, 3282, 208>>, -109), D(0, <<21275, 24573, 28058, 135>>, -52)>>,
     <<D(1, <<24199, 10799, 11428, 85>>, -105), D(0, <<23377, 8228, 19463, 136>>, -52)>>,
     <<D(1, <<27221, 6301, 958, 132>>, -110), D(0, <<3187, 24630, 10941, 34>>, -50)>>,
     <<D(1, <<31243, 14805, 4679, 71>>, -105), D(0, <<18799, 10986, 10323, 4>>, -47)>>,
     <<D(0, <<21935, 21176, 20367, 134>>, -107), D(0, <<3665, 4427, 27235, 138>>, -52)>>,
     <<D(1, <<12905, 31401, 3466, 16>>, -104), D(0, <<20859, 30970, 19168, 139>>, -52)>>,
     <<D(1, <<12861, 11196, 32705, 248>>, -107), D(0, <<18165, 14476, 5618, 70>>, -51)>>,
     <<D(0, <<21439, 32294, 9776, 220>>, -107), D(0, <<19317, 22239, 3439, 141>>, -52)>>,
     <<D(1, <<30099, 30225, 13112, 91>>, -105), D(0, <<5941, 16898, 15328, 35>>, -50)>>,
     <<D(0, <<20859, 29667, 23966, 6>>, -101), D(0, <<23765, 12648, 10510, 71>>, -51)>>,
     <<D(1, <<14493, 5900, 7691, 255>>, -107), D(0, <<22813, 17913, 13632, 143>>, -52)>>,
     <<D(0, <<17293, 2381, 15621, 211>>, -107), D(0, <<18027, 2146, 3191, 72>>, -51)>>,
     <<D(0, <<1149, 25032, 26646, 131>>, -107), D(0, <<28235, 4477, 16019, 72>>, -51)>>,
     <<D(0, <<10789, 29140, 3837, 45>>, -104), D(0, <<11335, 7069, 7229, 18>>, -49)>>,
     <<D(0, <<18557, 25832, 30819, 186>>, -107), D(0, <<9791, 8037, 18233, 146>>, -52)>>,
     <<D(0, <<29689, 6175, 3671, 65>>, -106), D(0, <<31965, 19396, 11541, 147>>, -52)>>,
     <<D(1, <<1071, 16241, 28918, 90>>, -105), D(0, <<25473, 17386, 4991, 148>>, -52)>>,
     <<D(0, <<11057, 23059, 24453, 151>>, -107), D(0, <<24289, 27199, 31351, 148>>, -52)>>,
     <<D(1, <<24573, 6767, 17206, 116>>, -111), D(0, <<11673, 31259, 11807, 9>>, -48)>>,
     <<D(0, <<685, 14598, 14210, 54>>, -105), D(0, <<779, 19912, 18966, 150>>, -52)>>,
     <<D(0, <<19343, 5021, 21066, 240>>, -109), D(0, <<6059, 10558, 22879, 75>>, -51)>>,
     <<D(0, <<21979, 19888, 6890, 77>>, -106), D(0, <<14101, 5219, 7160, 152>>, -52)>>,
     <<D(0, <<7443, 29014, 16897, 44>>, -105), D(0, <<22577, 30873, 1475, 153>>, -52)>>,
     <<D(0, <<31781, 24019, 14962, 127>>, -106), D(0, <<5887, 25800, 28706, 153>>, -52)>>,
     <<D(1, <<5825, 7623, 9088, 45>>, -105), D(0, <<8177, 16165, 23317, 154>>, -52)>>,
     <<D(1, <<27149, 29458, 9590, 18>>, -103), D(0, <<10699, 28277, 18076, 155>>, -52)>>,
     <<D(1, <<5831, 6993, 4080, 100>>, -105), D(0, <<27699, 27909, 6492, 78>>, -51)>>,
     <<D(1, <<7017, 16020, 9168, 71>>, -107), D(0, <<8183, 27083, 8044, 157>>, -52)>>,
     <<D(1, <<6933, 26524, 25702, 200>>, -106), D(0, <<10469, 1575, 3255, 158>>, -52)>>,
     <<D(0, <<19565, 20052, 32034, 172>>, -107), D(0, <<6673, 19474, 15692, 79>>, -51)>>,
     <<D(1, <<13509, 31272, 9408, 76>>, -105), D(0, <<8199, 598, 31301, 39>>, -50)>>,
     <<D(1, <<2395, 4143, 7741, 197>>, -110), D(0, <<5909, 8695, 11284, 80>>, -51)>>,
     <<D(1, <<6683, 20115, 12909, 225>>, -108), D(0, <<10391, 12961, 18391, 161>>, -52)>>,
     <<D(0, <<11281, 16773, 4021, 155>>, -111), D(0, <<2349, 16579, 14369, 162>>, -52)>>,
     <<D(0, <<25839, 30220, 6180, 179>>, -106), D(0, <<87, 23098, 10503, 163>>, -52)>>,
     <<D(0, <<889, 13634, 13191, 246>>, -109), D(0, <<5069, 22200, 8616, 10>>, -48)>>,
     <<D(0, <<28963, 18401, 32739, 9>>, -102), D(0, <<27119, 28887, 18005, 82>>, -51)>>,
     <<D(0, <<11003, 22383, 9267, 11>>, -104), D(0, <<10791, 10860, 32619, 165>>, -52)>>,
     <<D(0, <<24695, 22185, 30455, 152>>, -106), D(0, <<23821, 13307, 29386, 166>>, -52)>>,
     <<D(1, <<20935, 113, 10344, 126>>, -106), D(0, <<11431, 27962, 26313, 167>>, -52)>>,
     <<D(1, <<9033, 14631, 31539, 190>>, -107), D(0, <<13089, 8911, 11701, 84>>, -51)>>,
     <<D(1, <<14431, 31262, 31514, 198>>, -108), D(0, <<10177, 22173, 26710, 84>>, -51)>>,
     <<D(1, <<11899, 27771, 9357, 88>>, -106), D(0, <<4623, 5307, 18067, 170>>, -52)>>,
     <<D(0, <<27591, 6397, 27146, 76>>, -105), D(0, <<5101, 14005, 24206, 85>>, -51)>>,
     <<D(0, <<6917, 24341, 25308, 220>>, -108), D(0, <<18429, 10543, 13387, 172>>, -52)>>,
     <<D(0, <<21513, 17464, 3975, 131>>, -106), D(0, <<21545, 14992, 11295, 173>>, -52)>>,
     <<D(0, <<25461, 20505, 3850, 83>>, -111), D(0, <<18103, 5298, 9370, 174>>, -52)>>,
     <<D(0, <<16437, 22217, 19352, 161>>, -106), D(0, <<9257, 17771, 29623, 21>>, -49)>>,
     <<D(1, <<30367, 17202, 4393, 231>>, -107), D(0, <<23561, 29421, 6022, 176>>, -52)>>,
     <<D(1, <<27061, 20219, 6626, 28>>, -104), D(0, <<21893, 24692, 4602, 177>>, -52)>>,
     <<D(1, <<29911, 2347, 9969, 81>>, -106), D(0, <<26137, 25420, 18536, 5>>, -47)>>,
     <<D(1, <<19211, 24085, 26478, 19>>, -103), D(0, <<8741, 1194, 2274, 179>>, -52)>>,
     <<D(0, <<1625, 16447, 4266, 46>>, -108), D(0, <<10611, 10393, 1367, 180>>, -52)>>,
     <<D(1, <<17477, 28631, 23031, 19>>, -103), D(0, <<15309, 19710, 633, 181>>, -52)>>,
     <<D(1, <<23745, 1844, 9563, 104>>, -108), D(0, <<23231, 27159, 73, 182>>, -52)>>,
     <<D(1, <<21751, 14445, 20447, 77>>, -108), D(0, <<6703, 30922, 32456, 182>>, -52)>>,
     <<D(1, <<2129, 10689, 28917, 134>>, -107), D(0, <<25889, 31912, 32637, 45>>, -50)>>,
     <<D(1, <<16079, 31924, 32145, 192>>, -108), D(0, <<6109, 29814, 8053, 46>>, -50)>>,
     <<D(1, <<14299, 22545, 15250, 11>>, -103), D(0, <<24669, 9298, 16282, 46>>, -50)>>,
     <<D(1, <<29509, 7765, 12900, 88>>, -106), D(0, <<26569, 11396, 32685, 186>>, -52)>>,
     <<D(0, <<21715, 15379, 29485, 132>>, -106), D(0, <<23871, 8124, 421, 188>>, -52)>>,
     <<D(1, <<9501, 29339, 19314, 217>>, -108), D(0, <<391, 26582, 1105, 189>>, -52)>>,
     <<D(0, <<16491, 10447, 13301, 167>>, -106), D(0, <<24729, 304, 986, 95>>, -51)>>,
     <<D(0, <<27733, 22444, 12166, 175>>, -109), D(0, <<10033, 14031, 17894, 95>>, -51)>>,
     <<D(1, <<26529, 12211, 17290, 98>>, -106), D(0, <<3337, 21566, 2126, 96>>, -51)>>,
     <<D(1, <<19917, 30877, 27062, 38>>, -104), D(0, <<19987, 12953, 5670, 193>>, -52)>>,
     <<D(1, <<32655, 14873, 15624, 65>>, -106), D(0, <<18349, 3143, 7273, 194>>, -52)>>,
     <<D(1, <<11191, 22642, 10401, 83>>, -105), D(0, <<4845, 13961, 9062, 195>>, -52)>>,
     <<D(0, <<1861, 26459, 8538>>, -97), D(0, <<26265, 13076, 11039, 196>>, -52)>>,
     <<D(0, <<15021, 24824, 14127, 59>>, -105), D(0, <<8411, 1109, 13205, 197>>, -52)>>,
     <<D(1, <<26623, 14731, 22914, 173>>, -109), D(0, <<20771, 2906, 20274, 49>>, -50)>>,
     <<D(0, <<22481, 11513, 30339, 55>>, -106), D(0, <<15259, 6421, 25437, 99>>, -51)>>,
     <<D(1, <<15747, 20028, 9342, 152>>, -106), D(0, <<32739, 2961, 10422, 100>>, -51)>>,
     <<D(1, <<7721, 5848, 9954, 237>>, -110), D(0, <<17893, 24987, 23774, 201>>, -52)>>,
     <<D(1, <<14681, 31009, 4069, 225>>, -109), D(0, <<21007, 6032, 26899, 202>>, -52)>>,
     <<D(1, <<31957, 8948, 1670, 73>>, -105), D(0, <<25829, 21499, 24416, 12>>, -48)>>,
     <<D(1, <<3659, 11981, 10675, 174>>, -107), D(0, <<989, 28874, 16866, 102>>, -51)>>,
     <<D(0, <<20007, 22307, 16368, 141>>, -108), D(0, <<16137, 12372, 28964, 12>>, -48)>>,
     <<D(0, <<29627, 16916, 18647, 238>>, -109), D(0, <<8995, 13254, 8588, 207>>, -52)>>,
     <<D(1, <<8803, 17604, 5136, 190>>, -107), D(0, <<25957, 30395, 12697, 208>>, -52)>>,
     <<D(0, <<12757, 18372, 29211, 216>>, -107), D(0, <<11571, 22676, 17007, 209>>, -52)>>,
     <<D(1, <<15125, 10105, 28487, 141>>, -106), D(0, <<9565, 25724, 21518, 210>>, -52)>>,
     <<D(0, <<6377, 7406, 6243, 67>>, -105), D(0, <<5739, 1228, 15567, 26>>, -49)>>,
     <<D(0, <<23219, 23782, 9745, 163>>, -107), D(0, <<32191, 10995, 31149, 212>>, -52)>>,
     <<D(1, <<10093, 19399, 24525, 37>>, -105), D(0, <<31165, 16339, 1751, 107>>, -51)>>,
     <<D(0, <<13191, 9622, 27102, 224>>, -107), D(0, <<21421, 12981, 8830, 215>>, -52)>>,
     <<D(1, <<27901, 19153, 30494, 65>>, -105), D(0, <<23347, 10637, 7182, 108>>, -51)>>,
     <<D(1, <<22365, 22236, 1970, 87>>, -109), D(0, <<5627, 28830, 20106, 217>>, -52)>>,
     <<D(1, <<7129, 29165, 2624, 2>>, -100), D(0, <<11421, 3557, 13029, 109>>, -51)>>,
     <<D(1, <<25805, 7254, 22260, 49>>, -107), D(0, <<24135, 26102, 32219, 219>>, -52)>>,
     <<D(1, <<2613, 22193, 15241, 143>>, -106), D(0, <<805, 12449, 19296, 110>>, -51)>>,
     <<D(0, <<24013, 5311, 32604, 167>>, -108), D(0, <<24809, 4171, 6205, 111>>, -51)>>,
     <<D(1, <<9771, 32073, 15867, 35>>, -104), D(0, <<7689, 14254, 19209, 223>>, -52)>>,
     <<D(0, <<3251, 24926, 15032, 155>>, -108), D(0, <<21671, 28354, 6555, 56>>, -50)>>,
     <<D(0, <<32613, 11855, 25394, 61>>, -105), D(0, <<26685, 24575, 342, 113>>, -51)>>,
     <<D(0, <<22123, 26756, 24719, 41>>, -105), D(0, <<20811, 23727, 8132, 227>>, -52)>>,
     <<D(0, <<6759, 28828, 14012, 158>>, -109), D(0, <<26549, 10253, 15798, 228>>, -52)>>,
     <<D(0, <<17197, 6948, 13718, 23>>, -106), D(0, <<4201, 14815, 23683, 229>>, -52)>>,
     <<D(1, <<23273, 972, 5169, 66>>, -106), D(0, <<25085, 21853, 15894, 115>>, -51)>>,
     <<D(1, <<31343, 32767, 13684, 253>>, -107), D(0, <<25183, 9475, 1837, 58>>, -50)>>,
     <<D(1, <<10569, 28907, 14008, 128>>, -106), D(0, <<17657, 2061, 24334, 116>>, -51)>>,
     <<D(0, <<1959, 19578, 3606, 165>>, -108), D(0, <<9351, 14839, 24675, 234>>, -52)>>,
     <<D(1, <<8719, 16512, 18040, 148>>, -107), D(0, <<12403, 17842, 16497, 29>>, -49)>>,
     <<D(0, <<25771, 27360, 23120, 60>>, -105), D(0, <<12933, 1974, 10136, 237>>, -52)>>,
     <<D(0, <<27467, 22530, 26982, 161>>, -107), D(0, <<3491, 7984, 14948, 7>>, -47)>>,
     <<D(1, <<15903, 3944, 21636, 150>>, -107), D(0, <<7007, 26359, 29276, 239>>, -52)>>,
     <<D(1, <<3529, 30350, 10980, 201>>, -107), D(0, <<8489, 10731, 6424, 241>>, -52)>>,
     <<D(0, <<2259, 16501, 22545, 165>>, -108), D(0, <<8187, 26507, 8285, 121>>, -51)>>,
     <<D(0, <<29297, 9018, 6065, 158>>, -107), D(0, <<19587, 30606, 26951, 243>>, -52)>>,
     <<D(1, <<14623, 20986, 32196, 15>>, -103), D(0, <<18541, 8868, 18783, 122>>, -51)>>,
     <<D(1, <<29821, 17478, 14947, 237>>, -107), D(0, <<26609, 23324, 15648, 246>>, -52)>>,
     <<D(0, <<17409, 4202, 25054, 30>>, -104), D(0, <<23079, 23746, 26735, 247>>, -52)>>,
     <<D(0, <<30105, 17321, 22313, 80>>, -106), D(0, <<14999, 28375, 5292, 249>>, -52)>>,
     <<D(0, <<17143, 12753, 18770, 105>>, -106), D(0, <<14613, 13019, 29959, 3>>, -46)>>,
     <<D(1, <<25581, 18551, 24299, 241>>, -107), D(0, <<12165, 22222, 31741, 62>>, -50)>>,
     <<D(0, <<19869, 6947, 9453, 188>>, -108), D(0, <<21019, 24679, 21472, 31>>, -49)>>,
     <<D(0, <<19593, 705, 5893, 152>>, -110), D(0, <<29169, 22302, 20232, 254>>, -52)>> >>

\* __pow_log_data of pow: ln2 in a high and a low part
Ln2hi == D(0, <<24391, 4287, 2839>>, -42)
Ln2lo == D(0, <<30323, 29304, 15573, 15>>, -93)

\* the coefficients A[0] .. A[6] of the polynomial of log1p(r) - r
PowLogPoly ==
  << D(1, <<1>>, -1),
     D(1, <<10923, 21845, 10922, 5>>, -48),
     D(0, <<3, 0, 0, 64>>, -52),
     D(0, <<10919, 6489, 13107, 102>>, -52),
     D(1, <<21053, 21801, 10922, 85>>, -52),
     D(1, <<17897, 13968, 9582, 146>>, -52),
     D(0, <<16323, 5708, 174, 128>>, -52) >>

\* OFF = 0x3fe6955500000000: its significand with the leading 1, an integer of
\* MantDig bits.  The intervals of the table start at the float with these bits.
PowLogOff == <<0, 0, 21844, 180>>
PowLogTableBits == 7

\* PowLogTab[i + 1] = <<invc, logc, logctail>>: c is near the centre of interval i,
\* invc = 1/c nearly, logc + logctail = log(c) nearly
PowLogTab ==
  << <<D(0, <<181>>, -7), D(1, <<22329, 8380, 2838>>, -43), D(0, <<28333, 4256, 21921, 1>>, -93)>>,
     <<D(0, <<45>>, -5), D(1, <<27393, 28527, 2792>>, -43), D(1, <<1977, 3470, 5281, 7>>, -93)>>,
     <<D(0, <<179>>, -7), D(1, <<26795, 7621, 2747>>, -43), D(1, <<20589, 11116, 2707, 155>>, -97)>>,
     <<D(0, <<89>>, -6), D(1, <<26047, 11105, 2701>>, -43), D(1, <<26581, 15712, 5010, 180>>, -101)>>,
     <<D(0, <<177>>, -7), D(1, <<12015, 6117, 2655>>, -43), D(1, <<18935, 6450, 877, 5>>, -94)>>,
     <<D(0, <<11>>, -3), D(1, <<4323, 6332, 652>>, -41), D(0, <<8499, 9254, 22575, 39>>, -96)>>,
     <<D(0, <<175>>, -7), D(1, <<20693, 3105, 2562>>, -43), D(0, <<1437, 28034, 1511, 113>>, -101)>>,
     <<D(0, <<87>>, -6), D(1, <<11561, 4885, 2515>>, -43), D(0, <<3235, 26725, 5688, 4>>, -92)>>,
     <<D(0, <<173>>, -7), D(1, <<13617, 8054, 154>>, -39), D(0, <<16457, 21701, 12955, 85>>, -96)>>,
     <<D(0, <<43>>, -5), D(1, <<22281, 3627, 605>>, -41), D(0, <<25979, 9837, 15759, 22>>, -94)>>,
     <<D(0, <<171>>, -7), D(1, <<31697, 22148, 2372>>, -43), D(0, <<12351, 28063, 10322, 174>>, -98)>>,
     <<D(0, <<171>>, -7), D(1, <<31697, 22148, 2372>>, -43), D(0, <<12351, 28063, 10322, 174>>, -98)>>,
     <<D(0, <<85>>, -6), D(1, <<31215, 20606, 2324>>, -43), D(1, <<27963, 10323, 13384, 89>>, -97)>>,
     <<D(0, <<169>>, -7), D(1, <<11571, 9776, 2276>>, -43), D(1, <<21761, 13427, 12220, 63>>, -96)>>,
     <<D(0, <<21>>, -4), D(1, <<30069, 22314, 2227>>, -43), D(0, <<10895, 18032, 18417, 15>>, -94)>>,
     <<D(0, <<167>>, -7), D(1, <<13769, 25342, 2178>>, -43), D(1, <<11571, 32005, 20873, 90>>, -96)>>,
     <<D(0, <<83>>, -6), D(1, <<10041, 25756, 1064>>, -42), D(1, <<391, 32500, 22492, 113>>, -98)>>,
     <<D(0, <<165>>, -7), D(1, <<19277, 1202, 1040>>, -42), D(1, <<11647, 15848, 23266, 129>>, -100)>>,
     <<D(0, <<165>>, -7), D(1, <<19277, 1202, 1040>>, -42), D(1, <<11647, 15848, 23266, 129>>, -100)>>,
     <<D(0, <<41>>, -5), D(1, <<13689, 18627, 507>>, -41), D(0, <<15495, 22322, 23722, 234>>, -99)>>,
     <<D(0, <<163>>, -7), D(1, <<24291, 2780, 990>>, -42), D(0, <<11209, 20035, 9911, 54>>, -95)>>,
     <<D(0, <<81>>, -6), D(1, <<25263, 24813, 1929>>, -43), D(1, <<32753, 27271, 19411, 11>>, -94)>>,
     <<D(0, <<161>>, -7), D(1, <<11583, 24843, 469>>, -41), D(0, <<26651, 30612, 27206, 141>>, -97)>>,
     <<D(0, <<5>>, -2), D(1, <<15573, 32636, 913>>, -42), D(0, <<24845, 13391, 31055, 46>>, -95)>>,
     <<D(0, <<5>>, -2), D(1, <<15573, 32636, 913>>, -42), D(0, <<24845, 13391, 31055, 46>>, -95)>>,
     <<D(0, <<159>>, -7), D(1, <<17113, 20686, 1776>>, -43), D(0, <<14223, 25367, 15040, 202>>, -98)>>,
     <<D(0, <<79>>, -6), D(1, <<14851, 7754, 431>>, -41), D(0, <<18483, 16333, 7366, 105>>, -103)>>,
     <<D(0, <<157>>, -7), D(1, <<32299, 30595, 1672>>, -43), D(1, <<24821, 23622, 6345, 86>>, -96)>>,
     <<D(0, <<157>>, -7), D(1, <<32299, 30595, 1672>>, -43), D(1, <<24821, 23622, 6345, 86>>, -96)>>,
     <<D(0, <<39>>, -5), D(1, <<20293, 19283, 1620>>, -43), D(1, <<21731, 2435, 18276, 214>>, -97)>>,
     <<D(0, <<155>>, -7), D(1, <<21005, 29708, 1567>>, -43), D(0, <<31241, 32695, 30461, 221>>, -97)>>,
     <<D(0, <<77>>, -6), D(1, <<4231, 14480, 757>>, -42), D(0, <<26955, 7316, 28104, 27>>, -94)>>,
     <<D(0, <<77>>, -6), D(1, <<4231, 14480, 757>>, -42), D(0, <<26955, 7316, 28104, 27>>, -94)>>,
     <<D(0, <<153>>, -7), D(1, <<29085, 16892, 1461>>, -43), D(1, <<28979, 9138, 18645, 67>>, -97)>>,
     <<D(0, <<19>>, -4), D(1, <<2681, 26126, 1407>>, -43), D(1, <<20537, 15904, 30990, 244>>, -98)>>,
     <<D(0, <<19>>, -4), D(1, <<2681, 26126, 1407>>, -43), D(1, <<20537, 15904, 30990, 244>>, -98)>>,
     <<D(0, <<151>>, -7), D(1, <<14875, 23740, 1353>>, -43), D(1, <<23439, 8206, 31278, 134>>, -97)>>,
     <<D(0, <<75>>, -6), D(1, <<22935, 13485, 162>>, -40), D(0, <<24079, 12442, 3265, 46>>, -96)>>,
     <<D(0, <<75>>, -6), D(1, <<22935, 13485, 162>>, -40), D(0, <<24079, 12442, 3265, 46>>, -96)>>,
     <<D(0, <<149>>, -7), D(1, <<489, 16260, 1244>>, -43), D(0, <<10781, 19751, 28940, 69>>, -99)>>,
     <<D(0, <<37>>, -5), D(1, <<511, 10847, 1189>>, -43), D(1, <<14465, 1500, 18072, 20>>, -94)>>,
     <<D(0, <<147>>, -7), D(1, <<10619, 29357, 566>>, -42), D(1, <<20939, 6161, 328, 122>>, -96)>>,
     <<D(0, <<147>>, -7), D(1, <<10619, 29357, 566>>, -42), D(1, <<20939, 6161, 328, 122>>, -96)>>,
     <<D(0, <<73>>, -6), D(1, <<19721, 28623, 1077>>, -43), D(0, <<5885, 17524, 27030, 52>>, -97)>>,
     <<D(0, <<73>>, -6), D(1, <<19721, 28623, 1077>>, -43), D(0, <<5885, 17524, 27030, 52>>, -97)>>,
     <<D(0, <<145>>, -7), D(1, <<3807, 18707, 1021>>, -43), D(1, <<6649, 23715, 27304, 85>>, -96)>>,
     <<D(0, <<9>>, -3), D(1, <<28203, 19982, 120>>, -40), D(0, <<15, 5496, 13356, 52>>, -95)>>,
     <<D(0, <<9>>, -3), D(1, <<28203, 19982, 120>>, -40), D(0, <<15, 5496, 13356, 52>>, -95)>>,
     <<D(0, <<143>>, -7), D(1, <<15727, 29348, 453>>, -42), D(1, <<24323, 22623, 6318, 116>>, -97)>>,
     <<D(0, <<71>>, -6), D(1, <<21079, 9939, 850>>, -43), D(0, <<30041, 31254, 7322, 21>>, -94)>>,
     <<D(0, <<71>>, -6), D(1, <<21079, 9939, 850>>, -43), D(0, <<30041, 31254, 7322, 21>>, -94)>>,
     <<D(0, <<141>>, -7), D(1, <<12685, 13405, 792>>, -43), D(0, <<27341, 21323, 15892, 19>>, -95)>>,
     <<D(0, <<141>>, -7), D(1, <<12685, 13405, 792>>, -43), D(0, <<27341, 21323, 15892, 19>>, -95)>>,
     <<D(0, <<35>>, -5), D(1, <<22315, 3368, 734>>, -43), D(1, <<14829, 18739, 11887, 90>>, -96)>>,
     <<D(0, <<139>>, -7), D(1, <<30769, 12403, 675>>, -43), D(0, <<24151, 17292, 2413, 248>>, -98)>>,
     <<D(0, <<139>>, -7), D(1, <<30769, 12403, 675>>, -43), D(0, <<24151, 17292, 2413, 248>>, -98)>>,
     <<D(0, <<69>>, -6), D(1, <<12511, 7545, 616>>, -43), D(0, <<5087, 6642, 31595, 226>>, -97)>>,
     <<D(0, <<69>>, -6), D(1, <<12511, 7545, 616>>, -43), D(0, <<5087, 6642, 31595, 226>>, -97)>>,
     <<D(0, <<137>>, -7), D(1, <<23879, 5339, 139>>, -41), D(0, <<8969, 27935, 29049, 163>>, -98)>>,
     <<D(0, <<17>>, -4), D(1, <<35, 10435, 248>>, -42), D(0, <<3729, 1645, 26234, 234>>, -97)>>,
     <<D(0, <<17>>, -4), D(1, <<35, 10435, 248>>, -42), D(0, <<3729, 1645, 26234, 234>>, -97)>>,
     <<D(0, <<135>>, -7), D(1, <<25139, 2933, 218>>, -42), D(0, <<7187, 29419, 634, 57>>, -96)>>,
     <<D(0, <<135>>, -7), D(1, <<25139, 2933, 218>>, -42), D(0, <<7187, 29419, 634, 57>>, -96)>>,
     <<D(0, <<67>>, -6), D(1, <<22731, 8903, 375>>, -43), D(1, <<20727, 13554, 30860, 115>>, -96)>>,
     <<D(0, <<67>>, -6), D(1, <<22731, 8903, 375>>, -43), D(1, <<20727, 13554, 30860, 115>>, -96)>>,
     <<D(0, <<133>>, -7), D(1, <<26619, 29757, 313>>, -43), D(0, <<32597, 29990, 1391, 84>>, -99)>>,
     <<D(0, <<133>>, -7), D(1, <<26619, 29757, 313>>, -43), D(0, <<32597, 29990, 1391, 84>>, -99)>>,
     <<D(0, <<33>>, -5), D(1, <<25039, 24742, 15>>, -39), D(1, <<633, 15935, 38, 51>>, -95)>>,
     <<D(0, <<33>>, -5), D(1, <<25039, 24742, 15>>, -39), D(1, <<633, 15935, 38, 51>>, -95)>>,
     <<D(0, <<131>>, -7), D(1, <<4011, 25708, 189>>, -43), D(1, <<9785, 10229, 13650, 196>>, -97)>>,
     <<D(0, <<65>>, -6), D(1, <<11327, 24660, 31>>, -41), D(1, <<27047, 31593, 7804, 62>>, -100)>>,
     <<D(0, <<65>>, -6), D(1, <<11327, 24660, 31>>, -41), D(1, <<27047, 31593, 7804, 62>>, -100)>>,
     <<D(0, <<129>>, -7), D(1, <<9905, 31749, 7>>, -40), D(1, <<4153, 1773, 25151, 51>>, -96)>>,
     <<D(0, <<129>>, -7), D(1, <<9905, 31749, 7>>, -40), D(1, <<4153, 1773, 25151, 51>>, -96)>>,
     <<D(0, <<1>>, 0), D(0, <<>>, 0), D(0, <<>>, 0)>>,
     <<D(0, <<1>>, 0), D(0, <<>>, 0), D(0, <<>>, 0)>>,
     <<D(0, <<127>>, -7), D(0, <<30089, 8234, 64>>, -43), D(1, <<9597, 26215, 25525, 16>>, -95)>>,
     <<D(0, <<63>>, -6), D(0, <<12583, 345, 129>>, -43), D(1, <<31721, 1762, 14518, 79>>, -96)>>,
     <<D(0, <<125>>, -7), D(0, <<10441, 4682, 97>>, -42), D(1, <<781, 6445, 8378, 53>>, -95)>>,
     <<D(0, <<31>>, -5), D(0, <<10141, 2796, 260>>, -43), D(0, <<22355, 14819, 18177, 136>>, -99)>>,
     <<D(0, <<123>>, -7), D(0, <<27159, 26286, 40>>, -40), D(1, <<16293, 23919, 2873, 28>>, -94)>>,
     <<D(0, <<61>>, -6), D(0, <<21119, 9552, 393>>, -43), D(1, <<9853, 8372, 26199, 203>>, -98)>>,
     <<D(0, <<121>>, -7), D(0, <<14199, 23454, 460>>, -43), D(1, <<10247, 4016, 9161, 211>>, -98)>>,
     <<D(0, <<241>>, -8), D(0, <<27, 20878, 494>>, -43), D(1, <<15227, 8082, 17657, 240>>, -99)>>,
     <<D(0, <<239>>, -8), D(0, <<2611, 29629, 562>>, -43), D(1, <<7835, 11291, 18805, 169>>, -97)>>,
     <<D(0, <<237>>, -8), D(0, <<16015, 24410, 631>>, -43), D(0, <<20183, 19382, 8570, 230>>, -97)>>,
     <<D(0, <<235>>, -8), D(0, <<27837, 5540, 701>>, -43), D(1, <<3727, 15453, 21004, 113>>, -96)>>,
     <<D(0, <<117>>, -7), D(0, <<11179, 1688, 368>>, -42), D(0, <<30361, 10653, 15643, 112>>, -100)>>,
     <<D(0, <<29>>, -5), D(0, <<30053, 6898, 403>>, -42), D(0, <<9197, 15037, 8888, 76>>, -96)>>,
     <<D(0, <<115>>, -7), D(0, <<28011, 11400, 877>>, -43), D(1, <<26853, 22510, 16896, 156>>, -98)>>,
     <<D(0, <<229>>, -8), D(0, <<1777, 17088, 456>>, -42), D(0, <<11475, 3253, 6983, 178>>, -97)>>,
     <<D(0, <<227>>, -8), D(0, <<6225, 29592, 984>>, -43), D(1, <<12847, 2814, 14349, 7>>, -92)>>,
     <<D(0, <<113>>, -7), D(0, <<20191, 2323, 1021>>, -43), D(1, <<2813, 8002, 21337, 169>>, -97)>>,
     <<D(0, <<7>>, -3), D(0, <<4415, 30952, 546>>, -42), D(0, <<1017, 20013, 24305, 71>>, -96)>>,
     <<D(0, <<223>>, -8), D(0, <<25151, 17775, 1130>>, -43), D(0, <<9805, 8732, 10126, 57>>, -95)>>,
     <<D(0, <<221>>, -8), D(0, <<6413, 17796, 150>>, -40), D(0, <<13473, 5891, 30131, 156>>, -99)>>,
     <<D(0, <<55>>, -6), D(0, <<345, 16278, 1241>>, -43), D(0, <<29321, 18070, 16032, 177>>, -103)>>,
     <<D(0, <<109>>, -7), D(0, <<13115, 10160, 1316>>, -43), D(0, <<14031, 21823, 16828, 21>>, -94)>>,
     <<D(0, <<217>>, -8), D(0, <<18971, 31932, 1353>>, -43), D(0, <<32199, 19154, 20387, 177>>, -97)>>,
     <<D(0, <<215>>, -8), D(0, <<26817, 27095, 1429>>, -43), D(0, <<1487, 19215, 26565, 25>>, -95)>>,
     <<D(0, <<107>>, -7), D(0, <<14167, 593, 1468>>, -43), D(1, <<8673, 19256, 17975, 168>>, -97)>>,
     <<D(0, <<213>>, -8), D(0, <<21573, 12720, 1506>>, -43), D(1, <<17157, 24866, 6209, 227>>, -98)>>,
     <<D(0, <<211>>, -8), D(0, <<27449, 32095, 98>>, -39), D(1, <<11473, 21970, 30034, 185>>, -99)>>,
     <<D(0, <<105>>, -7), D(0, <<23799, 13493, 101>>, -39), D(0, <<32623, 12609, 18593, 191>>, -99)>>,
     <<D(0, <<13>>, -4), D(0, <<25687, 16083, 850>>, -42), D(1, <<8553, 8364, 18701, 195>>, -97)>>,
     <<D(0, <<207>>, -8), D(0, <<30141, 15114, 1740>>, -43), D(1, <<28885, 20140, 27418, 112>>, -98)>>,
     <<D(0, <<103>>, -7), D(0, <<16863, 2163, 890>>, -42), D(1, <<2395, 22868, 6024, 117>>, -96)>>,
     <<D(0, <<205>>, -8), D(0, <<28417, 32632, 1819>>, -43), D(1, <<5609, 17814, 22757, 71>>, -99)>>,
     <<D(0, <<203>>, -8), D(0, <<3401, 10166, 1900>>, -43), D(1, <<12341, 28203, 31915, 215>>, -97)>>,
     <<D(0, <<101>>, -7), D(0, <<32369, 25055, 1940>>, -43), D(0, <<8003, 27656, 1161, 9>>, -99)>>,
     <<D(0, <<201>>, -8), D(0, <<25821, 27483, 123>>, -39), D(1, <<3601, 19319, 1109, 209>>, -103)>>,
     <<D(0, <<25>>, -5), D(0, <<19259, 9101, 2022>>, -43), D(0, <<19955, 6465, 29435, 13>>, -94)>>,
     <<D(0, <<99>>, -7), D(0, <<2475, 19992, 2104>>, -43), D(0, <<20113, 11738, 29548, 196>>, -100)>>,
     <<D(0, <<197>>, -8), D(0, <<15115, 17110, 536>>, -41), D(0, <<27369, 11385, 25132, 184>>, -97)>>,
     <<D(0, <<49>>, -6), D(0, <<17661, 25504, 2187>>, -43), D(1, <<31751, 12754, 8462, 56>>, -95)>>,
     <<D(0, <<195>>, -8), D(0, <<30111, 22322, 2229>>, -43), D(0, <<5761, 28490, 27447, 220>>, -97)>>,
     <<D(0, <<97>>, -7), D(0, <<27469, 26200, 2271>>, -43), D(0, <<15799, 8847, 7093, 229>>, -97)>>,
     <<D(0, <<193>>, -8), D(0, <<8663, 4443, 2314>>, -43), D(0, <<23925, 14918, 4029, 106>>, -98)>>,
     <<D(0, <<191>>, -8), D(0, <<19913, 24079, 1199>>, -42), D(0, <<317, 9512, 7418, 53>>, -95)>>,
     <<D(0, <<95>>, -7), D(0, <<3739, 20254, 610>>, -41), D(1, <<10135, 13512, 28989, 24>>, -94)>>,
     <<D(0, <<189>>, -8), D(0, <<27617, 27886, 1242>>, -42), D(0, <<12025, 27708, 14182, 17>>, -95)>>,
     <<D(0, <<47>>, -6), D(0, <<29491, 19022, 1264>>, -42), D(0, <<12119, 23299, 15188, 48>>, -96)>>,
     <<D(0, <<187>>, -8), D(0, <<31421, 27912, 2572>>, -43), D(0, <<24733, 22817, 4315, 199>>, -99)>>,
     <<D(0, <<93>>, -7), D(0, <<20025, 25456, 2616>>, -43), D(1, <<22133, 4815, 7992, 249>>, -97)>>,
     <<D(0, <<185>>, -8), D(0, <<24947, 15379, 1330>>, -42), D(1, <<13865, 3461, 8329, 60>>, -95)>>,
     <<D(0, <<23>>, -5), D(0, <<14789, 10976, 676>>, -41), D(0, <<18265, 713, 31170, 245>>, -97)>>,
     <<D(0, <<183>>, -8), D(0, <<15501, 32490, 1374>>, -42), D(0, <<16623, 23738, 14263, 253>>, -98)>>,
     <<D(0, <<91>>, -7), D(0, <<31435, 23517, 698>>, -41), D(1, <<6519, 1106, 2858, 52>>, -97)>> >>

None == [cls |-> "None", neg |-> FALSE, m |-> << >>, e |-> 0]

\* one instruction on the register file R: sub is a + (-b), fma is a * b + c
\* and fms is a * b + (-c), rounded once
Exec(R, ins) ==
  LET a == R[ins[3]]
      b == R[ins[4]]
  IN  CASE ins[2] \in {"add", "sub"} -> fadd(a, IF ins[2] = "add" THEN b ELSE fneg(b))
        [] ins[2] = "mul" -> fmul(a, b)
        [] ins[2] \in {"fma", "fms"} ->
             ffma(a, b, IF ins[2] = "fma" THEN R[ins[5]] ELSE fneg(R[ins[5]]))

RECURSIVE RunFrom(_, _, _)
RunFrom(code, i, R) ==
  IF i > Len(code) THEN R
  ELSE RunFrom(code, i + 1, [R EXCEPT ![code[i][1]] = Exec(R, code[i])])

\* the register file after the code has run on the registers given in regs
Run(code, regs) ==
  RunFrom(code, 1,
          [n \in DOMAIN regs \cup {code[i][1] : i \in DOMAIN code} |->
             IF n \in DOMAIN regs THEN regs[n] ELSE None])

\* exp(x) = 2^(k/N) * exp(r) with x = k * ln2/N + r, N the size of the table:
\* kd is k as a float, read off kd + Shift
ExpReduceCode ==
  << <<"kds", "fma", "x", "InvLn2N", "Shift">>,
     <<"kd",  "sub", "kds", "Shift">>,
     <<"rhi", "fma", "kd", "NegLn2hiN", "x">>,
     <<"r",   "fma", "kd", "NegLn2loN", "rhi">> >>

\* pow adds the low part of its argument: r = xtail + r
ExpTailCode ==
  << <<"r", "add", "xtail", "r">> >>

\* tmp = tail + r + r2 * (C2 + r * C3) + r2 * r2 * (C4 + r * C5)
ExpPolyCode ==
  << <<"p23", "fma", "C3", "r", "C2">>,
     <<"rt",  "add", "r", "tail">>,
     <<"r2",  "mul", "r", "r">>,
     <<"p45", "fma", "r", "C5", "C4">>,
     <<"t",   "fma", "p23", "r2", "rt">>,
     <<"r4",  "mul", "r2", "r2">>,
     <<"tmp", "fma", "p45", "r4", "t">> >>

\* y = scale + scale * tmp
ExpScaleCode ==
  << <<"y", "fma", "scale", "tmp", "scale">> >>

\* specialcase, k >= 0: scale holds 2^-1009 of the scale
ExpLargeCode ==
  << <<"y", "fma", "scale", "tmp", "scale">>,
     <<"y", "mul", "p1009", "y">> >>

\* specialcase, k < 0: scale holds 2^1022 of the scale, and the result may be
\* subnormal; y = scale + scale * tmp, and ylo is y rounded to the precision the
\* result has after it is scaled by 2^-1022, for y below 1.0
ExpSmallCode ==
  << <<"st",  "mul", "scale", "tmp">>,
     <<"y",   "add", "scale", "st">>,
     <<"d",   "sub", "scale", "y">>,
     <<"lo",  "add", "d", "st">>,
     <<"hi",  "add", "one", "y">>,
     <<"d",   "sub", "one", "hi">>,
     <<"d",   "add", "d", "y">>,
     <<"lo",  "add", "d", "lo">>,
     <<"ylo", "add", "hi", "lo">>,
     <<"ylo", "sub", "ylo", "one">> >>

\* which end of exp applies: specialcase from |x| = 2^9 on, by the sign of k
ExpCase(x, k) == IF Exponent(x) < 9 THEN "" ELSE IF k >= 0 THEN "large" ELSE "small"

ExpEndCode(c) ==
  CASE c = "" -> ExpScaleCode [] c = "large" -> ExpLargeCode [] c = "small" -> ExpSmallCode

\* what the end c adds to the exponent of the scale
ExpScaleShift(c) == CASE c = "" -> 0 [] c = "large" -> -1009 [] c = "small" -> 1022

\* the result in the registers R after the end c has run
ExpResult(R, c) ==
  IF c # "small" THEN R.y
  ELSE fmul(D(0, <<1>>, -1022),
            IF Exponent(R.y) >= 0 THEN R.y ELSE IF IsZero(R.ylo) THEN FZero ELSE R.ylo)

\* the polynomial and the end c of exp, from the reduced argument r, the entry
\* <<tail, scale>> of the table and kq to add to the exponent of its scale
ExpTop(r, entry, kq, c) ==
  ExpResult(Run(ExpPolyCode \o ExpEndCode(c),
                [r |-> r, tail |-> entry[1],
                 scale |-> Scalb(entry[2], kq + ExpScaleShift(c)),
                 C2 |-> ExpC2, C3 |-> ExpC3, C4 |-> ExpC4, C5 |-> ExpC5,
                 one |-> One, p1009 |-> D(0, <<1>>, 1009)]),
            c)

\* k = N * kq + j picks entry j of the table
ExpAt(x, r, k) ==
  ExpTop(r, ExpTab[(k % ExpTableSize) + 1], (k - (k % ExpTableSize)) \div ExpTableSize,
         ExpCase(x, k))

\* k is read off the registers of the reduction
ExpFrom(x, R) == ExpAt(x, R.r, ToInt(R.kd))

\* exp(x + xtail) for 2^-54 <= |x| < 2^10; exp itself has no xtail (None)
ExpInline(x, xtail) ==
  ExpFrom(x, Run(ExpReduceCode \o (IF xtail = None THEN << >> ELSE ExpTailCode),
                 [x |-> x, xtail |-> xtail, InvLn2N |-> InvLn2N, Shift |-> Shift,
                  NegLn2hiN |-> NegLn2hiN, NegLn2loN |-> NegLn2loN]))

\* the special cases of exp and of the exp_inline of pow for a finite x: 1 + x
\* below 2^-54, and 0 or infinity from 2^10 on
ExpFinite(x, xtail) ==
  IF IsZero(x) \/ Exponent(x) < -54 THEN fadd(One, x)
  ELSE IF Exponent(x) >= 10 THEN (IF x.neg THEN FZero ELSE Inf(FALSE))
  ELSE ExpInline(x, xtail)

\* exp(x)
libm_exp(x) ==
  IF IsNaN(x) THEN x
  ELSE IF IsInf(x) THEN (IF x.neg THEN FZero ELSE x)
  ELSE ExpFinite(x, None)

\* pow.c log_inline: y + tail = log(x) nearly, from x = 2^k * z and
\* log(x) = k * ln2 + log(c) + log1p(z/c - 1), c the centre of the interval of z;
\* then ehi + elo = 2 * log(x), the argument of the exp_inline of pow(x, 2.0)
PowLogCode ==
  << <<"r",    "fma", "z", "invc", "m1">>,
     <<"t1",   "fma", "kd", "Ln2hi", "logc">>,
     <<"t2",   "add", "t1", "r">>,
     <<"lo1",  "fma", "kd", "Ln2lo", "logctail">>,
     <<"d",    "sub", "t1", "t2">>,
     <<"lo2",  "add", "d", "r">>,
     <<"ar",   "mul", "A0", "r">>,
     <<"ar2",  "mul", "r", "ar">>,
     <<"ar3",  "mul", "r", "ar2">>,
     <<"hi",   "add", "t2", "ar2">>,
     <<"lo3",  "fms", "ar", "r", "ar2">>,
     <<"d",    "sub", "t2", "hi">>,
     <<"lo4",  "add", "d", "ar2">>,
     <<"p",    "fma", "r", "A6", "A5">>,
     <<"q",    "fma", "A4", "r", "A3">>,
     <<"p",    "fma", "p", "ar2", "q">>,
     <<"q",    "fma", "A2", "r", "A1">>,
     <<"p",    "fma", "ar2", "p", "q">>,
     <<"lo",   "add", "lo1", "lo2">>,
     <<"lo",   "add", "lo", "lo3">>,
     <<"lo",   "add", "lo", "lo4">>,
     <<"lo",   "fma", "ar3", "p", "lo">>,
     <<"y",    "add", "hi", "lo">>,
     <<"d",    "sub", "hi", "y">>,
     <<"tail", "add", "d", "lo">>,
     <<"ehi",  "mul", "two", "y">>,
     <<"d",    "fms", "y", "two", "ehi">>,
     <<"elo",  "fma", "two", "tail", "d">> >>

\* the registers after PowLogCode for x = 2^k * z and the entry
\* <<invc, logc, logctail>> of the table
PowLogAt(x, k, entry) ==
  Run(PowLogCode,
      [z |-> Scalb(x, -k), kd |-> FromInt(k), invc |-> entry[1],
       logc |-> entry[2], logctail |-> entry[3],
       Ln2hi |-> Ln2hi, Ln2lo |-> Ln2lo, m1 |-> fneg(One), two |-> D(0, <<1>>, 1),
       A0 |-> PowLogPoly[1], A1 |-> PowLogPoly[2], A2 |-> PowLogPoly[3],
       A3 |-> PowLogPoly[4], A4 |-> PowLogPoly[5], A5 |-> PowLogPoly[6],
       A6 |-> PowLogPoly[7]])

\* sig is the significand of x, MantDig bits with the leading 1.  Below that of
\* OFF, z = x * 2^-k is in [1, OFF) and the table is entered from OFF/2 on;
\* otherwise z is in [OFF/2, 1).  The top PowLogTableBits bits of the distance
\* from OFF, or from OFF/2, are the entry.
PowLogOf(x, sig, low) ==
  PowLogAt(x,
           IF low THEN Exponent(x) ELSE Exponent(x) + 1,
           PowLogTab[Limb(BShr(BSub(IF low THEN BAdd(sig, BShl(<<1>>, MantDig - 1))
                                           ELSE sig,
                                    PowLogOff),
                               MantDig - 1 - PowLogTableBits), 1) + 1])

PowLogSig(x, sig) == PowLogOf(x, sig, BCmp(sig, PowLogOff) < 0)

\* pow.c log_inline for a finite x > 0 (a subnormal x is normalised first)
LogInline(x) == PowLogSig(x, BShl(x.m, MantDig - BBitLen(x.m)))

\* exp_inline(ehi, elo) of the registers of log_inline
PowExp(R) == ExpFinite(R.ehi, R.elo)

\* pow(x, 2.0) for a finite x > 0: exp(2 * log(x)), the logarithm in two floats
libm_pow2(x) == PowExp(LogInline(x))

(***************************************************************************)
(* Python values and operators.  The result of an expression or a call is  *)
(* a value returned or an exception raised.                                *)
(***************************************************************************)
\* a call returned v
Return(v) == [exc |-> "", val |-> v]

\* a call raised exception e
Raise(e) == [exc |-> e, val |-> None]

ZeroDivisionError == Raise("ZeroDivisionError")

OverflowError == Raise("OverflowError")

ValueError == Raise("ValueError")

\* an operation that raised ends the expression: r if r raised, and otherwise
\* the outcome of the rest of the expression
OrElse(r, rest) == IF r.exc # "" THEN r ELSE rest

\* the outcome of an expression whose first operation is bound in S
Outcome(S) == CHOOSE r \in S : TRUE

\* x / y (float_div)
float_div(x, y) == IF IsZero(y) THEN ZeroDivisionError ELSE Return(fdiv(x, y))

\* float_pow: a result of pow() that overflowed raises
PowResult(p) == IF IsInf(p) THEN OverflowError ELSE Return(p)

\* x ** 2 (float_pow): the special values are sorted out first, the rest goes
\* to pow() with |x|
float_pow2(x) ==
  IF IsNaN(x) THEN Return(x)
  ELSE IF IsInf(x) THEN Return(Inf(FALSE))
  ELSE IF IsZero(x) THEN Return(FZero)
  ELSE IF fabs(x) = One THEN Return(One)
  ELSE PowResult(libm_pow2(fabs(x)))

\* math.exp: an infinite result r of a finite x raises
ExpOrRaise(x, r) == IF IsInf(r) /\ IsFinite(x) THEN OverflowError ELSE Return(r)

\* math.exp(x)
math_exp(x) == ExpOrRaise(x, libm_exp(x))

\* math.sqrt: a NaN result r of an x that is not a NaN raises
SqrtOrRaise(x, r) == IF IsNaN(r) /\ ~IsNaN(x) THEN ValueError ELSE Return(r)

\* math.sqrt(x)
math_sqrt(x) == SqrtOrRaise(x, fsqrt(x))

(***************************************************************************)
(* class GaussianBeam.  self is the record of the instance's fields.  The  *)
(* operations of an expression are evaluated in Python's order, and the    *)
(* first one that raises ends the evaluation.  A method binds the outcome  *)
(* of each operation to a name, the first operation on its last line, and  *)
(* continues with the next operation unless that outcome is an exception.  *)
(***************************************************************************)

\* math.pi*self._w_0**2/self._wl
compute_rayleigh_length(self) ==
  Outcome({OrElse(sq,
    float_div(fmul(MathPi, sq.val), self.wl))
           : sq \in {float_pow2(self.w_0)}})

\* waist_z with the sign of the waist position slipped: z + z_0
waist_z_plus_offset(self, z) ==
  Outcome({OrElse(q,
    Outcome({OrElse(q2,
      Outcome({OrElse(s,
        Return(fmul(self.w_0, s.val)))
               : s \in {math_sqrt(fadd(One, q2.val))}}))
             : q2 \in {float_pow2(q.val)}}))
           : q \in {float_div(fadd(z, self.z_0), self.rayleigh_length)}})

\* waist_z taking z as the distance from the waist, as its docstring words it
waist_z_no_offset(self, z) ==
  Outcome({OrElse(q,
    Outcome({OrElse(q2,
      Outcome({OrElse(s,
        Return(fmul(self.w_0, s.val)))
               : s \in {math_sqrt(fadd(One, q2.val))}}))
             : q2 \in {float_pow2(q.val)}}))
           : q \in {float_div(z, self.rayleigh_length)}})

\* self._w_0*math.sqrt(1+((z-self._z_0)/self._rayleigh_length)**2)
waist_z(self, z) ==
  Outcome({OrElse(q,
    Outcome({OrElse(q2,
      Outcome({OrElse(s,
        Return(fmul(self.w_0, s.val)))
               : s \in {math_sqrt(fadd(One, q2.val))}}))
             : q2 \in {float_pow2(q.val)}}))
           : q \in {float_div(fsub(z, self.z_0), self.rayleigh_length)}})

\* power_aperture returning the blocked share: power_in*math.exp(...)
power_aperture_blocked(self, power_in, r, z) ==
  Outcome({OrElse(r2,
    Outcome({OrElse(w,
      Outcome({OrElse(w2,
        Outcome({OrElse(a,
          Outcome({OrElse(ex,
            Return(fmul(power_in, ex.val)))
                   : ex \in {math_exp(a.val)}}))
                 : a \in {float_div(fmul(FromInt(-2), r2.val), w2.val)}}))
               : w2 \in {float_pow2(w.val)}}))
             : w \in {waist_z(self, z)}}))
           : r2 \in {float_pow2(r)}})

\* power_in*(1-math.exp(-2*r**2/self.waist_z(z)**2)): r**2 is evaluated before
\* waist_z is called
power_aperture(self, power_in, r, z) ==
  Outcome({OrElse(r2,
    Outcome({OrElse(w,
      Outcome({OrElse(w2,
        Outcome({OrElse(a,
          Outcome({OrElse(ex,
            Return(fmul(power_in, fsub(One, ex.val))))
                   : ex \in {math_exp(a.val)}}))
                 : a \in {float_div(fmul(FromInt(-2), r2.val), w2.val)}}))
               : w2 \in {float_pow2(w.val)}}))
             : w \in {waist_z(self, z)}}))
           : r2 \in {float_pow2(r)}})

\* the value of a parameter that defaults to None: given, or else the default
Default(given, default) == IF given = None THEN default ELSE given

\* eff = 1/(4*(mfd/w_x+w_x/mfd)*(mfd/w_y+w_y/mfd)), w_y defaulting to w_x
fiber_coupling_efficiency(mfd, w_x, w_y) ==
  Outcome({OrElse(a,
    Outcome({OrElse(b,
      Outcome({OrElse(c,
        Outcome({OrElse(d,
          float_div(One, fmul(fmul(FromInt(4), fadd(a.val, b.val)), fadd(c.val, d.val))))
                 : d \in {float_div(Default(w_y, w_x), mfd)}}))
               : c \in {float_div(mfd, Default(w_y, w_x))}}))
             : b \in {float_div(w_x, mfd)}}))
           : a \in {float_div(mfd, w_x)}})

\* fiber_coupling_efficiency_lens always taking the instance's waist
fiber_coupling_efficiency_lens_own_waist(self, mfd, f, w_in) ==
  Outcome({OrElse(w_lens,
    fiber_coupling_efficiency(mfd, w_lens.val, None))
           : w_lens \in {float_div(fmul(fmul(FromInt(4), self.wl), f), fmul(MathPi, self.w_0))}})

\* fiber_coupling_efficiency_lens with w_in defaulting to the wavelength
fiber_coupling_efficiency_lens_default_wl(self, mfd, f, w_in) ==
  Outcome({OrElse(w_lens,
    fiber_coupling_efficiency(mfd, w_lens.val, None))
           : w_lens \in {float_div(fmul(fmul(FromInt(4), self.wl), f), fmul(MathPi, Default(w_in, self.wl)))}})

\* w_lens = 4*self._wl*f/(math.pi*w_in), w_in defaulting to self._w_0
fiber_coupling_efficiency_lens(self, mfd, f, w_in) ==
  Outcome({OrElse(w_lens,
    fiber_coupling_efficiency(mfd, w_lens.val, None))
           : w_lens \in {float_div(fmul(fmul(FromInt(4), self.wl), f), fmul(MathPi, Default(w_in, self.w_0)))}})


(***************************************************************************)
(* The state: one GaussianBeam instance and its caller.  call is the call  *)
(* the caller has just made, ret what it returned or raised; the caller    *)
(* takes the result and is then free to make its next call.  w_0_init is   *)
(* the waist radius the instance was constructed with.                     *)
(***************************************************************************)
VARIABLES wl, w_0, z_0, rayleigh_length, call, ret, w_0_init

vars == <<wl, w_0, z_0, rayleigh_length, call, ret, w_0_init>>

fields == <<wl, w_0, z_0, rayleigh_length>>

Self == [wl |-> wl, w_0 |-> w_0, z_0 |-> z_0, rayleigh_length |-> rayleigh_length]

\* the values the calls are made with
MaxWaist == 2

Tenths(n) == fdiv(FromInt(n), FromInt(10))

\* 2^600 and 2^-600, positive floats whose squares are out of the range of a
\* float at either end
Huge == D(0, <<1>>, 600)
Tiny == D(0, <<1>>, -600)

Wavelengths == {FromInt(1), FromInt(2)}
Waists == {FromInt(n) : n \in 1..MaxWaist} \cup {Tiny, Huge}
Positions == {FromInt(0), FromInt(-1)}
AxialPoints == Positions \cup {Tenths(7), FromInt(-2), Huge}
Powers == {FromInt(3)}
Radii == {FromInt(0), FromInt(1), FromInt(6), Huge}
AperturePoints == {FromInt(-1), Huge}
ModeFieldDiameters == {FromInt(1), FromInt(2)}
SpotRadii == {FromInt(1), FromInt(2), Huge}
FocalLengths == {FromInt(1), FromInt(3)}
IncidentWaists == {FromInt(2), Huge}

Call(op, args) == [op |-> op, args |-> args]

NoCall == Call("", << >>)

\* GaussianBeam(wl, w_0, z_0): a constructor call that raises leaves no instance
Init ==
  \E a \in Wavelengths, b \in Waists, c \in Positions :
    \E r \in {compute_rayleigh_length([wl |-> a, w_0 |-> b, z_0 |-> c])} :
      /\ r.exc = ""
      /\ wl = a
      /\ w_0 = b
      /\ z_0 = c
      /\ rayleigh_length = r.val
      /\ call = Call("__init__", <<a, b, c>>)
      /\ ret = Return(None)
      /\ w_0_init = b

\* self._rayleigh_length = self.compute_rayleigh_length(), after the field is set:
\* when the computation raises, the assignment does not happen
Recompute(self) ==
  \E r \in {compute_rayleigh_length(self)} :
    /\ rayleigh_length' = (IF r.exc = "" THEN r.val ELSE rayleigh_length)
    /\ ret' = (IF r.exc = "" THEN Return(None) ELSE r)

wl_setter(val) ==
  /\ call = NoCall
  /\ wl' = val
  /\ Recompute([Self EXCEPT !.wl = val])
  /\ call' = Call("wl.setter", <<val>>)
  /\ UNCHANGED <<w_0, z_0, w_0_init>>

w_0_setter(val) ==
  /\ call = NoCall
  /\ w_0' = val
  /\ Recompute([Self EXCEPT !.w_0 = val])
  /\ call' = Call("w_0.setter", <<val>>)
  /\ UNCHANGED <<wl, z_0, w_0_init>>

\* the z_0 setter copied from the w_0 setter with the field name left as it was
z_0_setter_writes_w_0(val) ==
  /\ call = NoCall
  /\ w_0' = val
  /\ Recompute([Self EXCEPT !.w_0 = val])
  /\ call' = Call("z_0.setter", <<val>>)
  /\ UNCHANGED <<wl, z_0, w_0_init>>

z_0_setter(val) ==
  /\ call = NoCall
  /\ z_0' = val
  /\ Recompute([Self EXCEPT !.z_0 = val])
  /\ call' = Call("z_0.setter", <<val>>)
  /\ UNCHANGED <<wl, w_0, w_0_init>>

\* the getter computing the Rayleigh length on every read
rayleigh_length_getter_recompute ==
  /\ call = NoCall
  /\ ret' = compute_rayleigh_length(Self)
  /\ call' = Call("rayleigh_length", << >>)
  /\ UNCHANGED <<fields, w_0_init>>

rayleigh_length_getter ==
  /\ call = NoCall
  /\ ret' = Return(rayleigh_length)
  /\ call' = Call("rayleigh_length", << >>)
  /\ UNCHANGED <<fields, w_0_init>>

WaistZ(z) ==
  /\ call = NoCall
  /\ ret' = waist_z(Self, z)
  /\ call' = Call("waist_z", <<z>>)
  /\ UNCHANGED <<fields, w_0_init>>

PowerAperture(power_in, r, z) ==
  /\ call = NoCall
  /\ ret' = power_aperture(Self, power_in, r, z)
  /\ call' = Call("power_aperture", <<power_in, r, z>>)
  /\ UNCHANGED <<fields, w_0_init>>

FiberCouplingEfficiency(mfd, w_x, w_y) ==
  /\ call = NoCall
  /\ ret' = fiber_coupling_efficiency(mfd, w_x, w_y)
  /\ call' = Call("fiber_coupling_efficiency", <<mfd, w_x, w_y>>)
  /\ UNCHANGED <<fields, w_0_init>>

FiberCouplingEfficiencyLens(mfd, f, w_in) ==
  /\ call = NoCall
  /\ ret' = fiber_coupling_efficiency_lens(Self, mfd, f, w_in)
  /\ call' = Call("fiber_coupling_efficiency_lens", <<mfd, f, w_in>>)
  /\ UNCHANGED <<fields, w_0_init>>

\* the caller has the result of its call and goes on
CallerContinues ==
  /\ call # NoCall
  /\ call' = NoCall
  /\ ret' = Return(None)
  /\ UNCHANGED <<fields, w_0_init>>

Next ==
  \/ \E val \in Wavelengths \cup {FZero} : wl_setter(val)
  \/ \E val \in Waists : w_0_setter(val)
  \/ \E val \in Positions : z_0_setter(val)
  \/ rayleigh_length_getter
  \/ \E z \in AxialPoints : WaistZ(z)
  \/ \E p \in Powers, r \in Radii, z \in AperturePoints : PowerAperture(p, r, z)
  \/ \E mfd \in ModeFieldDiameters, w_x \in SpotRadii, w_y \in {FromInt(2), None} :
       FiberCouplingEfficiency(mfd, w_x, w_y)
  \/ \E mfd \in ModeFieldDiameters, f \in FocalLengths, w_in \in IncidentWaists \cup {None} :
       FiberCouplingEfficiencyLens(mfd, f, w_in)
  \/ CallerContinues

Spec == Init /\ [][Next]_vars

(***************************************************************************)
(* The claims.                                                             *)
(***************************************************************************)
Queries == {"rayleigh_length", "waist_z", "power_aperture",
            "fiber_coupling_efficiency", "fiber_coupling_efficiency_lens"}

\* x > 0 and finite
Positive(x) == IsFinite(x) /\ ~IsZero(x) /\ ~x.neg

\* x >= y
AtLeast(x, y) == fcmp(x, y) \in {0, 1}

\* C1 (as claimed): whenever the wavelength and the waist radius are positive
\* (so after construction and after any setter calls with positive values), the
\* cached rayleigh_length is pi * w_0^2 / wl of the current fields.
C1_RayleighLengthCurrent ==
  (Positive(wl) /\ Positive(w_0))
  => Return(rayleigh_length) = compute_rayleigh_length(Self)

\* C2 (as claimed): fiber_coupling_efficiency(mfd, w, w) and
\* fiber_coupling_efficiency(mfd, w) return exactly 1.0 when w = mfd.
C2_MatchedCouplingIsOne ==
  (/\ call.op = "fiber_coupling_efficiency"
   /\ call.args[2] = call.args[1]
   /\ call.args[3] \in {None, call.args[1]})
  => ret = Return(One)

\* C3 (as claimed): a wl setter call with 0, which raises ZeroDivisionError,
\* leaves wl, w_0, z_0 and rayleigh_length as they were.
C3_FailedSetterLeavesBeam ==
  [][(call'.op = "wl.setter" /\ ret' = ZeroDivisionError) => UNCHANGED fields]_vars

\* C4: a z_0 setter call stores its value in z_0 and leaves wl, w_0 and the
\* value of rayleigh_length as they were.
C4_WaistPositionFrame ==
  [][call'.op = "z_0.setter"
       => z_0' = call'.args[1] /\ UNCHANGED <<wl, w_0, rayleigh_length>>]_vars

\* C4 witness: a z_0 setter call has returned with the new position stored.
C4_Witness ==
  /\ call.op = "z_0.setter"
  /\ ret = Return(None)
  /\ z_0 = call.args[1]
  /\ z_0 = FromInt(-1)

\* 4*wl*f/(math.pi*w_in) of the current wavelength
FocusedWaist(f, w_in) ==
  float_div(fmul(fmul(FromInt(4), wl), f), fmul(MathPi, w_in))

\* fiber_coupling_efficiency(mfd, 4*wl*f/(math.pi*w_in)), w_y omitted
FocusedCoupling(mfd, f, w_in) ==
  Outcome({OrElse(w, fiber_coupling_efficiency(mfd, w.val, None))
           : w \in {FocusedWaist(f, w_in)}})

\* C5: fiber_coupling_efficiency_lens(mfd, f, w_in) returns what
\* fiber_coupling_efficiency(mfd, 4*wl*f/(pi*w_in)) returns, w_y omitted, wl the
\* beam's current wavelength.
C5_LensIsComposition ==
  (call.op = "fiber_coupling_efficiency_lens" /\ call.args[3] # None)
  => ret = FocusedCoupling(call.args[1], call.args[2], call.args[3])

\* C5 witness: a lens call with an incident waist other than the beam's own has
\* returned an efficiency above 0.
C5_Witness ==
  /\ call.op = "fiber_coupling_efficiency_lens"
  /\ call.args[3] # None
  /\ call.args[3] # w_0
  /\ ret.exc = ""
  /\ Positive(ret.val)
  /\ ret = FocusedCoupling(call.args[1], call.args[2], call.args[3])

\* C6: with w_in omitted, fiber_coupling_efficiency_lens(mfd, f) returns what
\* fiber_coupling_efficiency_lens(mfd, f, w_0) returns for the waist radius
\* currently stored.
C6_LensDefaultsToCurrentWaist ==
  (call.op = "fiber_coupling_efficiency_lens" /\ call.args[3] = None)
  => ret = fiber_coupling_efficiency_lens(Self, call.args[1], call.args[2], w_0)

\* C6 witness: a lens call without w_in on a beam whose waist a setter has
\* changed from the constructed one.
C6_Witness ==
  /\ call.op = "fiber_coupling_efficiency_lens"
  /\ call.args[3] = None
  /\ w_0 # w_0_init
  /\ ret.exc = ""
  /\ Positive(ret.val)
  /\ ret = fiber_coupling_efficiency_lens(Self, call.args[1], call.args[2], w_0)

\* C7 (as claimed): for positive wl and w_0, waist_z(z_0) returns exactly the
\* current w_0, and no waist_z(z) returns less.
C7_WaistIsMinimum ==
  (call.op = "waist_z" /\ Positive(wl) /\ Positive(w_0))
  => /\ call.args[1] = z_0 => ret = Return(w_0)
     /\ ret.exc = "" => AtLeast(ret.val, w_0)

\* C7 (amended): whenever the cached rayleigh_length is not 0.0, waist_z(z_0)
\* returns exactly the current w_0, and no waist_z(z) returns less.
C7_WaistIsMinimumOffZero ==
  (call.op = "waist_z" /\ ~IsZero(rayleigh_length))
  => /\ call.args[1] = z_0 => ret = Return(w_0)
     /\ ret.exc = "" => AtLeast(ret.val, w_0)

\* C7 witness: waist_z at the waist position of a beam whose waist was changed
\* has returned that waist, and away from the waist position more.
C7_Witness ==
  /\ call.op = "waist_z"
  /\ call.args[1] = z_0
  /\ w_0 # w_0_init
  /\ ~IsZero(rayleigh_length)
  /\ ret = Return(w_0)
  /\ fcmp(waist_z(Self, Tenths(7)).val, w_0) = 1

\* 2*z_0 - z
Mirror(z) == fsub(fmul(FromInt(2), z_0), z)

\* the offset of the mirrored point from the waist is computed without rounding
\* error: (2*z_0 - z) - z_0 == -(z - z_0)
MirrorExact(z) == fcmp(fsub(Mirror(z), z_0), fneg(fsub(z, z_0))) = 0

\* C8 (as claimed): waist_z(z) == waist_z(2*z_0 - z) for every z.
C8_Symmetric ==
  call.op = "waist_z" => ret = waist_z(Self, Mirror(call.args[1]))

\* C8 (amended): waist_z(z) == waist_z(2*z_0 - z) whenever the offset of the
\* mirrored point, (2*z_0 - z) - z_0, is computed exactly as -(z - z_0).
C8_SymmetricWhenExact ==
  (call.op = "waist_z" /\ MirrorExact(call.args[1]))
  => ret = waist_z(Self, Mirror(call.args[1]))

\* C8 witness: waist_z away from a waist position other than 0, the mirrored
\* offset exact, equal to waist_z at the mirrored point.
C8_Witness ==
  /\ call.op = "waist_z"
  /\ ~IsZero(z_0)
  /\ call.args[1] # z_0
  /\ MirrorExact(call.args[1])
  /\ ret.exc = ""
  /\ fcmp(ret.val, w_0) = 1
  /\ ret = waist_z(Self, Mirror(call.args[1]))

\* r**2 does not overflow
RadiusSquares(r) == float_pow2(r).exc = ""

\* waist_z(z) returns a beam radius whose square neither overflows nor is 0.0
WaistSquares(z) ==
  \E w \in {waist_z(Self, z)} :
    /\ w.exc = ""
    /\ \E w2 \in {float_pow2(w.val)} : w2.exc = "" /\ ~IsZero(w2.val)

\* not above P, and not above what power_aperture(P, r2, z) returns for any
\* larger radius r2
BoundedAndMonotone ==
  /\ AtLeast(call.args[1], ret.val)
  /\ \A r2 \in Radii :
       fcmp(r2, call.args[2]) = 1
       => \E q \in {power_aperture(Self, call.args[1], r2, call.args[3])} :
            q.exc = "" => AtLeast(q.val, ret.val)

C10_QueriesPure ==
  [][call'.op \in Queries
       => /\ UNCHANGED fields
          /\ call'.op = "rayleigh_length" => ret' = Return(rayleigh_length)]_vars

\* C10 witness: rayleigh_length read after a failed wl setter call returns the
\* cached value, which a recomputation (it would raise) could not give.
C10_Witness ==
  /\ call.op = "rayleigh_length"
  /\ IsZero(wl)
  /\ ret = Return(rayleigh_length)

====
